---- MODULE Spec2Model ----
(***************************************************************************)
(* A model of extract_memories.py: destination configuration, the          *)
(* conflict-mode pre-filter, the main loop over records,                   *)
(* download_and_process (plain-file path and archive path) and             *)
(* save_or_upload_bytes with its capacity guards.                          *)
(*                                                                         *)
(* Text (file names, prefixes, URLs, dates) is a sequence of               *)
(* one-character strings, so that startswith, concatenation and suffixes   *)
(* are computed and not assumed.  Bytes are sequences of small numbers.    *)
(***************************************************************************)
EXTENDS Integers, Sequences, FiniteSets, TLC

(***************************************************************************)
(* Bounds of the model.                                                    *)
(***************************************************************************)
\* number of parts (base texts and markers) in the member names of the
\* classification study
MaxParts == 3
\* number of records that follow the first SliceStart video rows
MaxRecs == 2
\* free space / quota values run over 0..MaxFree
MaxFree == 2
\* objects a Drive folder may hold under one name before the run
MaxOld == 1
\* length of the Date texts of the prefix study
MaxText == 3

(***************************************************************************)
(* Text helpers.                                                           *)
(***************************************************************************)
\* Python's None where text is expected
None == <<"None">>

\* str.startswith
StartsWith(name, prefix) ==
    /\ Len(prefix) <= Len(name)
    /\ SubSeq(name, 1, Len(prefix)) = prefix

IsSpace(c) == c = " "

\* the class [A-Za-z0-9._-] of sanitize_part, over the model's alphabet
Allowed(c) == c \in {"a", "b", "p", "0", "1", "2", ".", "_", "-"}

RECURSIVE LStrip(_)
LStrip(s) == IF s # <<>> /\ IsSpace(Head(s)) THEN LStrip(Tail(s)) ELSE s

RECURSIVE RStrip(_)
RStrip(s) ==
    IF s # <<>> /\ IsSpace(s[Len(s)]) THEN RStrip(SubSeq(s, 1, Len(s) - 1)) ELSE s

\* str.strip()
Strip(s) == RStrip(LStrip(s))

\* re.sub(r"\s+", "_", s): every maximal run of white space becomes one "_"
RECURSIVE SubSpaces(_)
SubSpaces(s) ==
    IF s = <<>> THEN <<>>
    ELSE IF IsSpace(Head(s)) THEN <<"_">> \o SubSpaces(LStrip(s))
    ELSE <<Head(s)>> \o SubSpaces(Tail(s))

\* re.sub(r'[^A-Za-z0-9._-]', '_', t)
SubInvalid(s) == [i \in 1..Len(s) |-> IF Allowed(s[i]) THEN s[i] ELSE "_"]

sanitize_part(s) == IF s = None THEN <<>> ELSE SubInvalid(SubSpaces(Strip(s)))

\* rec['_prefix'] = f"{date_part}_{loc_part}"
PrefixOf(date, location) == sanitize_part(date) \o <<"_">> \o sanitize_part(location)

\* str(count) for the small counts of the model
CountStr(n) == << CASE n = 0 -> "0" [] n = 1 -> "1" [] n = 2 -> "2" [] OTHER -> "9" >>

Jpg == <<".", "j", "p", "g">>
Mp4 == <<".", "m", "p", "4">>
Png == <<".", "p", "n", "g">>
Bin == <<".", "b", "i", "n">>
Zip == <<".", "z", "i", "p">>

(***************************************************************************)
(* Records (the rows parsed from memories_history.html).                   *)
(***************************************************************************)
\* for rec in videos[137:]
SliceStart == 137

Rec(date, mtype, loc, url) ==
    [Date |-> date, MediaType |-> mtype, Location |-> loc, Url |-> url]

\* the video rows that precede the slice
PadRec == Rec(<<"p">>, "Video", <<>>, <<"u", "0">>)

\* the rows the model draws the rest of the table from
RecDomain ==
    { Rec(<<"a">>, "Video", <<>>, <<"u", "1">>),
      Rec(<<"a">>, "Video", <<"b">>, <<"v", ".", "M", "P", "4">>),
      Rec(<<"a">>, "Image", <<>>, <<"u", "3">>),
      Rec(<<"a">>, "Video", <<>>, None) }

SeqsUpTo(S, n) == UNION { [1..k -> S] : k \in 1..n }

RecordsOf(tail) == [k \in 1..SliceStart |-> PadRec] \o tail

Prefix(rec) == PrefixOf(rec.Date, rec.Location)

\* videos = list(filter(lambda x: x.get("Media Type") == "Video", records))
IsVideo(rec) == rec.MediaType = "Video"

Videos(recs) == SelectSeq(recs, IsVideo)

\* videos[137:]
LoopRecords(recs) ==
    LET v == Videos(recs)
    IN  IF Len(v) <= SliceStart THEN <<>> ELSE SubSeq(v, SliceStart + 1, Len(v))

(***************************************************************************)
(* The destinations.                                                       *)
(***************************************************************************)
\* the name and the bytes of what a destination may hold before the run
OldName == <<"a", "_">> \o Jpg
OldBytes == <<0>>

\* a Drive folder holding n objects named OldName
DriveWith(n) == { [id |-> k, name |-> OldName, bts |-> OldBytes] : k \in 1..n }

\* a local directory: file name -> bytes
EmptyDir == [n \in {} |-> <<>>]
DirWith(n) == IF n = 0 THEN EmptyDir ELSE [x \in {OldName} |-> OldBytes]

Put(f, k, v) == [x \in (DOMAIN f) \cup {k} |-> IF x = k THEN v ELSE f[x]]
Drop(f, k) == [x \in (DOMAIN f) \ {k} |-> f[x]]

\* dict.get(k, [])
Get(f, k) == IF k \in DOMAIN f THEN f[k] ELSE <<>>

Range(s) == { s[k] : k \in 1..Len(s) }

(***************************************************************************)
(* Paths, URLs and archive member names.                                   *)
(***************************************************************************)
\* str.rfind(c), 0 when absent
RECURSIVE RFind(_, _)
RFind(s, c) ==
    IF s = <<>> THEN 0
    ELSE IF s[Len(s)] = c THEN Len(s)
    ELSE RFind(SubSeq(s, 1, Len(s) - 1), c)

\* str.find(c), 0 when absent
RECURSIVE FindFrom(_, _, _)
FindFrom(s, c, k) ==
    IF k > Len(s) THEN 0 ELSE IF s[k] = c THEN k ELSE FindFrom(s, c, k + 1)

\* str.lower() over the letters the model uses in upper case
LowerChar(c) ==
    CASE c = "M" -> "m" [] c = "A" -> "a" [] c = "I" -> "i" [] c = "N" -> "n"
      [] c = "J" -> "j" [] c = "P" -> "p" [] c = "G" -> "g" [] OTHER -> c

Lower(s) == [k \in 1..Len(s) |-> LowerChar(s[k])]

\* Path(p).name
PathName(p) == SubSeq(p, RFind(p, "/") + 1, Len(p))

\* Path(p).suffix
PathSuffix(p) ==
    LET nm == PathName(p)
        i  == RFind(nm, ".")
    IN  IF 1 < i /\ i < Len(nm) THEN SubSeq(nm, i, Len(nm)) ELSE <<>>

\* urllib.request.urlparse(url).path for the model's URLs (path, then ?query)
UrlPath(url) ==
    LET q == FindFrom(url, "?", 1)
    IN  IF q = 0 THEN url ELSE SubSeq(url, 1, q - 1)

\* str.endswith
EndsWith(s, t) ==
    /\ Len(t) <= Len(s)
    /\ SubSeq(s, Len(s) - Len(t) + 1, Len(s)) = t

\* t in s
Contains(s, t) == \E k \in 0..(Len(s) - Len(t)) : SubSeq(s, k + 1, k + Len(t)) = t

MainTag == <<"-", "m", "a", "i", "n">>
OverlayTag == <<"-", "o", "v", "e", "r", "l", "a", "y">>

\* re.match(r'(.+?)-(?:main|overlay)', s, re.I): the length of group 1, 0 when
\* there is no match
MarkerAt(s, k) ==
    LET rest == Lower(SubSeq(s, k + 1, Len(s)))
    IN  StartsWith(rest, MainTag) \/ StartsWith(rest, OverlayTag)

BaseLen(s) ==
    LET ks == { k \in 1..Len(s) : MarkerAt(s, k) }
    IN  IF ks = {} THEN 0 ELSE CHOOSE k \in ks : \A j \in ks : k <= j

\* the classification with the extension not looked at
Classify_AnyExtension(member) ==
    LET nm  == PathName(member)
        ext == Lower(PathSuffix(nm))
        nne == IF ext # <<>> THEN SubSeq(nm, 1, Len(nm) - Len(ext)) ELSE nm
        bl  == BaseLen(nne)
        base == SubSeq(nne, 1, bl)
    IN  IF bl = 0 THEN [role |-> "ignored", base |-> <<>>]
        ELSE IF Contains(Lower(nne), MainTag) THEN [role |-> "main", base |-> base]
        ELSE IF Contains(Lower(nne), OverlayTag) THEN [role |-> "overlay", base |-> base]
        ELSE [role |-> "ignored", base |-> <<>>]

\* what the loop over z.namelist() does with one member name:
\* "main", "overlay" or "ignored", and the group key
Classify(member) ==
    LET nm  == PathName(member)
        ext == Lower(PathSuffix(nm))
        nne == IF ext # <<>> THEN SubSeq(nm, 1, Len(nm) - Len(ext)) ELSE nm
        bl  == BaseLen(nne)
        base == SubSeq(nne, 1, bl)
    IN  IF bl = 0 THEN [role |-> "ignored", base |-> <<>>]
        ELSE IF Contains(Lower(nne), MainTag) /\ ext \in {Jpg, <<".", "j", "p", "e", "g">>, Mp4}
             THEN [role |-> "main", base |-> base]
        ELSE IF Contains(Lower(nne), OverlayTag) /\ ext = Png
             THEN [role |-> "overlay", base |-> base]
        ELSE [role |-> "ignored", base |-> <<>>]

\* mains[base] = member: a dict keeps the position of a key it already has
RECURSIVE DictSet(_, _, _)
DictSet(d, key, val) ==
    IF d = <<>> THEN << [key |-> key, val |-> val] >>
    ELSE IF Head(d).key = key THEN << [key |-> key, val |-> val] >> \o Tail(d)
    ELSE << Head(d) >> \o DictSet(Tail(d), key, val)

\* mains after the members[1..n] have been looked at: a sequence of
\* [key |-> base, val |-> member index], in insertion order
RECURSIVE Mains(_, _)
Mains(members, n) ==
    IF n = 0 THEN <<>>
    ELSE LET c == Classify(members[n].name)
         IN  IF c.role = "main" THEN DictSet(Mains(members, n - 1), c.base, n)
             ELSE Mains(members, n - 1)

\* overlays.get(base, []): the member indices of the overlays of a group, in
\* archive order
RECURSIVE OverlaysOf(_, _, _)
OverlaysOf(members, base, n) ==
    IF n = 0 THEN <<>>
    ELSE LET c == Classify(members[n].name)
         IN  IF c.role = "overlay" /\ c.base = base
             THEN Append(OverlaysOf(members, base, n - 1), n)
             ELSE OverlaysOf(members, base, n - 1)

get_extension_from_content_type(ct) ==
    CASE ct \in {"image/jpeg", "image/jpg"} -> Jpg
      [] ct = "image/png" -> Png
      [] ct = "video/mp4" -> Mp4
      [] ct = "application/zip" -> Zip
      [] OTHER -> <<>>

(***************************************************************************)
(* Payloads: what a download answers, and what compositing produces.       *)
(***************************************************************************)
\* a byte of this value makes Image.open fail
Corrupt == 9

Decodable(bts) == Corrupt \notin Range(bts)

\* img.convert('RGB') and rgb.save(format='JPEG'): the pixels, encoded anew
JpegEncode(px) == [k \in 1..Len(px) |-> (px[k] + 10) % 256]

\* img.alpha_composite(overlay_img) for each overlay in turn
RECURSIVE Composite(_, _)
Composite(px, ovs) ==
    IF ovs = <<>> THEN px ELSE Composite(px \o Head(ovs), Tail(ovs))

\* one ffmpeg step: the overlay laid over the current input, video encoded anew
Ffmpeg(cur, ov) == cur \o [k \in 1..Len(ov) |-> (ov[k] + 20) % 256]

Member(name, bts, readable) == [name |-> name, bts |-> bts, readable |-> readable]

Resp(ok, ct, zipfile, data, members) ==
    [ok |-> ok, ct |-> ct, zipfile |-> zipfile, data |-> data, members |-> members]

AMainJpg == <<"a">> \o MainTag \o Jpg
BMainJpg == <<"b">> \o <<"-", "M", "A", "I", "N">> \o Jpg
AMainMp4 == <<"a">> \o MainTag \o Mp4
AOverlay == <<"a">> \o OverlayTag \o Png
AOverlay2 == <<"a">> \o OverlayTag \o <<"2">> \o Png
AOverlay3 == <<"a">> \o OverlayTag \o <<"3">> \o Png

\* the answers of urlopen the model draws from: stills for one URL, videos for
\* the other
StillResponses ==
    { Resp(FALSE, "", FALSE, <<>>, <<>>),
      Resp(TRUE, "image/jpeg", FALSE, <<1>>, <<>>),
      Resp(TRUE, "", FALSE, <<2, 2>>, <<>>),
      Resp(TRUE, "application/zip", TRUE, <<4>>,
           << Member(AMainJpg, <<1>>, TRUE), Member(AOverlay, <<5>>, TRUE),
              Member(BMainJpg, <<2>>, TRUE) >>),
      Resp(TRUE, "application/zip", TRUE, <<4>>,
           << Member(AMainJpg, <<1>>, TRUE), Member(AOverlay, <<Corrupt>>, TRUE) >>),
      Resp(TRUE, "", TRUE, <<4>>, << Member(<<"x", ".", "t">>, <<1>>, TRUE) >>) }

VideoResponses ==
    { Resp(TRUE, "video/mp4", FALSE, <<2, 2>>, <<>>),
      Resp(TRUE, "application/zip", FALSE, <<4>>, <<>>),
      Resp(TRUE, "application/zip", TRUE, <<4>>,
           << Member(AMainJpg, <<1>>, FALSE), Member(<<"x", ".", "t">>, <<1>>, TRUE),
              Member(BMainJpg, <<2>>, TRUE) >>),
      Resp(TRUE, "", TRUE, <<4>>, << Member(AMainMp4, <<3>>, TRUE) >>),
      Resp(TRUE, "", TRUE, <<4>>,
           << Member(AMainMp4, <<3>>, TRUE), Member(AOverlay, <<5>>, TRUE),
              Member(AOverlay2, <<Corrupt>>, TRUE), Member(AOverlay3, <<6>>, TRUE) >>),
      Resp(TRUE, "", TRUE, <<4>>,
           << Member(AMainMp4, <<3>>, TRUE), Member(AOverlay, <<Corrupt>>, TRUE),
              Member(AOverlay2, <<5>>, FALSE) >>) }

Responses(url) == IF EndsWith(Lower(url), Mp4) THEN VideoResponses ELSE StillResponses

\* the URLs of the video rows of the table, the rows whose URL is requested
VideoUrls(tail) ==
    { tail[k].Url : k \in { j \in 1..Len(tail) :
                               tail[j].MediaType = "Video" /\ tail[j].Url # None } }

\* the ways the URLs may answer during one run
Webs(tail) ==
    { f \in [VideoUrls(tail) -> StillResponses \cup VideoResponses] :
         \A u \in VideoUrls(tail) : f[u] \in Responses(u) }

\* shutil.disk_usage: whether it answered, and the free bytes
LocalSpaces == { [ok |-> FALSE, free |-> 0] } \cup [ok : {TRUE}, free : 0..MaxFree]

\* about().get(fields='storageQuota'): whether it answered, and the limit and
\* the usage it gave: a decimal string (its value), Missing or Unparsable
Missing == -1
Unparsable == -2
Quotas ==
    { [ok |-> FALSE, limit |-> Missing, usage |-> Missing],
      [ok |-> TRUE, limit |-> Missing, usage |-> 0],
      [ok |-> TRUE, limit |-> Unparsable, usage |-> 0],
      [ok |-> TRUE, limit |-> MaxFree, usage |-> Unparsable] }
    \cup [ok : {TRUE}, limit : 1..MaxFree, usage : {Missing, 1}]

(***************************************************************************)
(* State.                                                                  *)
(***************************************************************************)
VARIABLES
    user,              \* the answers typed at the prompts, and the table rows
    web,               \* what each download URL serves
    DESTINATION, GDRIVE_SERVICE, GDRIVE_FOLDER_ID, CONFLICT_MODE,
    GDRIVE_EXISTING,   \* file name -> sequence of object ids
    records,
    pc,                \* where the script is
    loop_i,            \* position of the main loop in videos[137:]
    frame,             \* the locals of download_and_process
    call,              \* the locals of save_or_upload_bytes
    all_saved,         \* url -> what download_and_process returned
    report,            \* download_report.json, once written
    status,            \* "running", "ok", "exit1" (sys.exit(1)), "crash"
    drive,             \* the objects of the Drive folder
    nextId,            \* the id Drive gives to the next object
    disk,              \* SNAPCHAT_DIR: file name -> bytes
    tmpdirs,           \* the snapchat_* temporary directories that exist: those
                       \* in use by a video group, those left by a failed rmtree
    h                  \* what has happened so far (read by the properties only)

cfgVars == <<user, web, DESTINATION, GDRIVE_SERVICE, GDRIVE_FOLDER_ID, CONFLICT_MODE, records>>
storeVars == <<drive, nextId, disk, GDRIVE_EXISTING>>
vars == <<user, web, DESTINATION, GDRIVE_SERVICE, GDRIVE_FOLDER_ID, CONFLICT_MODE,
          GDRIVE_EXISTING, records, pc, loop_i, frame, call, all_saved, report,
          status, drive, nextId, disk, tmpdirs, h>>

NoFrame == [url |-> <<>>, prefix |-> <<>>, members |-> <<>>, mains |-> <<>>,
            gi |-> 0, count |-> 0, saved_files |-> <<>>, ffmpeg |-> FALSE,
            tmp |-> FALSE, cur |-> <<>>, ovs |-> <<>>, k |-> 0, step |-> 0]

NoCall == [bts |-> <<>>, filename |-> <<>>, ext |-> <<>>, caller |-> "none"]

NoObs == [dest |-> "none"]

EmptyMap == [x \in {} |-> <<>>]

\* the names a destination holds
DriveNames(d) == { o.name : o \in d }

\* name -> ids, as listing the folder gives it
RECURSIVE IdsSeq(_)
IdsSeq(S) ==
    IF S = {} THEN <<>>
    ELSE LET m == CHOOSE x \in S : \A y \in S : x <= y
         IN  <<m>> \o IdsSeq(S \ {m})

build_gdrive_existing_map(d) ==
    [n \in DriveNames(d) |-> IdsSeq({ o.id : o \in { x \in d : x.name = n } })]

StartHistory(names) ==
    [ fatalSeen |-> FALSE,      \* a run-fatal condition has occurred
      guardObs  |-> NoObs,      \* what the last capacity guard was told
      guardPassed |-> FALSE,    \* and whether it let the payload through
      itemLog   |-> <<>>,       \* the steps of the current commit, in order
      name      |-> <<>>,       \* the name and the bytes given to the current commit
      bts       |-> <<>>,
      existed   |-> FALSE,      \* the name was at the destination when commit began
      returned  |-> FALSE,      \* the commit has returned to its caller
      info      |-> [kind |-> "none"],  \* what it returned
      embedOk   |-> TRUE,       \* write_file_metadata has not failed in this commit
      written   |-> <<>>,       \* names handed to a write or an upload, this run
      processed |-> <<>>,       \* the records given to download_and_process
      names0    |-> names,      \* the names at the destination when the run began
      listed    |-> FALSE,      \* the Drive folder was listed
      rerun     |-> FALSE ]     \* this is a second run over the same destination

\* the history of one commit, dropped when the script moves on
Forget(hh) ==
    [hh EXCEPT !.guardObs = NoObs, !.guardPassed = FALSE, !.itemLog = <<>>,
               !.name = <<>>, !.bts = <<>>, !.existed = FALSE, !.returned = FALSE,
               !.info = [kind |-> "none"], !.embedOk = TRUE]

Settled(hh) == [hh EXCEPT !.guardObs = NoObs]

Init ==
    /\ \E choice \in {"local", "gdrive"}, cm \in {"skip", "overwrite", "new"},
          tail \in SeqsUpTo(RecDomain, MaxRecs), n \in 0..MaxOld :
          /\ choice = "local" => (cm = "skip" /\ n <= 1)
          /\ user = [choice |-> choice, cm |-> cm, tail |-> tail]
          /\ web \in Webs(tail)
          /\ records = RecordsOf(tail)
          /\ drive = IF choice = "gdrive" THEN DriveWith(n) ELSE {}
          /\ disk = IF choice = "local" THEN DirWith(n) ELSE EmptyDir
          /\ nextId = n + 1
          /\ h = StartHistory(IF choice = "gdrive" THEN DriveNames(DriveWith(n))
                              ELSE DOMAIN DirWith(n))
    /\ DESTINATION = "local"
    /\ GDRIVE_SERVICE = FALSE
    /\ GDRIVE_FOLDER_ID = FALSE
    /\ CONFLICT_MODE = "skip"
    /\ GDRIVE_EXISTING = EmptyMap
    /\ pc = "prompt"
    /\ loop_i = 1
    /\ frame = NoFrame
    /\ call = NoCall
    /\ all_saved = EmptyMap
    /\ report = <<>>
    /\ status = "running"
    /\ tmpdirs = [live |-> 0, left |-> 0]

(***************************************************************************)
(* Leaving the script.                                                     *)
(***************************************************************************)
\* a way out of the video branch that does not touch the directory
AfterCleanup_Kept(rmOk) == tmpdirs

\* shutil.rmtree(tmpdir) in the finally clause of the video branch: rmOk says
\* whether it removed the directory (its failure is swallowed)

AfterCleanup(rmOk) ==
    IF ~frame.tmp THEN tmpdirs
    ELSE IF rmOk THEN [tmpdirs EXCEPT !.live = @ - 1]
    ELSE [tmpdirs EXCEPT !.live = @ - 1, !.left = @ + 1]

RmOutcomes == IF frame.tmp THEN BOOLEAN ELSE {TRUE}

\* sys.exit(1), or an exception nothing catches: the finally clause of the
\* video branch runs on the way out when the script is inside it
Terminate(st, rmOk) ==
    /\ pc' = "exit"
    /\ status' = st
    /\ tmpdirs' = AfterCleanup(rmOk)
    /\ UNCHANGED <<loop_i, frame, call, all_saved, report>>

(***************************************************************************)
(* prompt_destination                                                      *)
(***************************************************************************)
\* CONFLICT_MODE after the answer cm
ConflictModeFor(cm, old) ==
    IF cm \in {"overwrite", "skip"} THEN cm ELSE IF cm = "new" THEN "new" ELSE old

\* GDRIVE_EXISTING = build_gdrive_existing_map(...) inside prompt_destination:
\* the name is missing from the function's global statement, so the listing is
\* bound to a local name and the module's GDRIVE_EXISTING keeps its value
ExistingAfterPrompt(old, listing) == old

PromptLocal ==
    /\ pc = "prompt"
    /\ user.choice # "gdrive"
    /\ pc' = "prefilter"
    /\ UNCHANGED <<cfgVars, storeVars, loop_i, frame, call, all_saved, report,
                   status, tmpdirs, h>>

PromptGdrive ==
    /\ pc = "prompt"
    /\ user.choice = "gdrive"
    /\ DESTINATION' = "gdrive"
    /\ CONFLICT_MODE' = ConflictModeFor(user.cm, CONFLICT_MODE)
    /\ \E sa \in BOOLEAN, initOk \in BOOLEAN, folderOk \in BOOLEAN, listOk \in BOOLEAN :
          IF ~sa
          THEN \* no service account file given
               /\ pc' = "exit" /\ status' = "exit1"
               /\ UNCHANGED <<GDRIVE_SERVICE, GDRIVE_FOLDER_ID, GDRIVE_EXISTING, h>>
          ELSE IF ~initOk
          THEN \* init_gdrive_service raised: "Falling back to local", return
               /\ pc' = "prefilter" /\ status' = status
               /\ UNCHANGED <<GDRIVE_SERVICE, GDRIVE_FOLDER_ID, GDRIVE_EXISTING, h>>
          ELSE IF ~folderOk
          THEN \* the folder cannot be read, or cannot be created
               /\ pc' = "exit" /\ status' = "exit1"
               /\ GDRIVE_SERVICE' = TRUE
               /\ UNCHANGED <<GDRIVE_FOLDER_ID, GDRIVE_EXISTING, h>>
          ELSE IF ~listOk
          THEN \* listing the folder failed
               /\ pc' = "exit" /\ status' = "exit1"
               /\ GDRIVE_SERVICE' = TRUE /\ GDRIVE_FOLDER_ID' = TRUE
               /\ UNCHANGED <<GDRIVE_EXISTING, h>>
          ELSE /\ pc' = "prefilter" /\ status' = status
               /\ GDRIVE_SERVICE' = TRUE /\ GDRIVE_FOLDER_ID' = TRUE
               /\ GDRIVE_EXISTING' =
                      ExistingAfterPrompt(GDRIVE_EXISTING, build_gdrive_existing_map(drive))
               /\ h' = [h EXCEPT !.listed = TRUE]
    /\ UNCHANGED <<user, web, records, drive, nextId, disk, loop_i, frame, call,
                   all_saved, report, tmpdirs>>

(***************************************************************************)
(* if CONFLICT_MODE == 'new': drop the records already at the destination  *)
(***************************************************************************)
\* any(name.startswith(prefix) for name in existing_names)
ExistsAt(names, rec) == \E name \in names : StartsWith(name, Prefix(rec))

NewRecords(recs, names) ==
    LET IsNew(rec) == ~ExistsAt(names, rec) IN SelectSeq(recs, IsNew)

PreFilter ==
    /\ pc = "prefilter"
    /\ IF CONFLICT_MODE # "new"
       THEN /\ pc' = "loop"
            /\ UNCHANGED <<records, status>>
       ELSE IF DESTINATION = "gdrive"
       THEN IF ~(GDRIVE_SERVICE /\ GDRIVE_FOLDER_ID)
            THEN /\ pc' = "exit" /\ status' = "exit1" /\ UNCHANGED records
            ELSE /\ records' = NewRecords(records, DOMAIN GDRIVE_EXISTING)
                 /\ pc' = "loop" /\ UNCHANGED status
       ELSE \* get_local_existing_set
            \E readOk \in BOOLEAN :
               IF readOk
               THEN /\ records' = NewRecords(records, DOMAIN disk)
                    /\ pc' = "loop" /\ UNCHANGED status
               ELSE /\ pc' = "exit" /\ status' = "exit1" /\ UNCHANGED records
    /\ UNCHANGED <<user, web, DESTINATION, GDRIVE_SERVICE, GDRIVE_FOLDER_ID,
                   CONFLICT_MODE, storeVars, loop_i, frame, call, all_saved, report, tmpdirs, h>>

(***************************************************************************)
(* The main loop, and download_and_process up to the commit.               *)
(***************************************************************************)
Goto(x) ==
    /\ pc' = x
    /\ UNCHANGED <<status, tmpdirs, loop_i, frame, call, all_saved, report>>

\* what download_and_process returns: None, or the saved_files list
NoneRet == [ret |-> "None", files |-> <<>>]
ListRet(files) == [ret |-> "list", files |-> files]

\* the entries of saved_files: the bare name (plain-file path), or the info
\* save_or_upload_bytes returned (archive path)
NameEntry(name) == [kind |-> "name", name |-> name, ids |-> <<>>]
PathInfo(name) == [kind |-> "path", name |-> name, ids |-> <<>>]
GdriveInfo(name, id) == [kind |-> "gdrive_id", name |-> name, ids |-> <<id>>]
SkippedInfo(name, ids) == [kind |-> "skipped", name |-> name, ids |-> ids]

\* return v from download_and_process; all_saved[url] = saved; next record
ReturnToLoop(v) ==
    /\ all_saved' = Put(all_saved, frame.url, v)
    /\ loop_i' = loop_i + 1
    /\ frame' = NoFrame
    /\ pc' = "loop"

\* the name is at the destination
NameExists(name) ==
    IF DESTINATION = "gdrive" THEN name \in DriveNames(drive) ELSE name \in DOMAIN disk

\* entering save_or_upload_bytes(bts, filename, rec, ext)
EnterCommit(bts, filename, ext, caller) ==
    /\ call' = [bts |-> bts, filename |-> filename, ext |-> ext, caller |-> caller]
    /\ h' = [Forget(h) EXCEPT !.name = filename, !.bts = bts,
                              !.existed = NameExists(filename)]
    /\ pc' = "guard"

\* for rec in videos[137:]: ... if not url: continue
LoopSkip ==
    /\ pc = "loop"
    /\ loop_i <= Len(LoopRecords(records))
    /\ LoopRecords(records)[loop_i].Url = None
    /\ loop_i' = loop_i + 1
    /\ h' = Forget(h)
    /\ UNCHANGED <<cfgVars, storeVars, pc, frame, call, all_saved, report, status,
                   tmpdirs>>

\* saved = download_and_process(rec), up to the request
LoopStart ==
    /\ pc = "loop"
    /\ loop_i <= Len(LoopRecords(records))
    /\ LET rec == LoopRecords(records)[loop_i]
       IN  /\ rec.Url # None
           /\ frame' = [NoFrame EXCEPT !.url = rec.Url, !.prefix = Prefix(rec)]
           /\ h' = [Forget(h) EXCEPT !.processed = Append(@, rec)]
    /\ pc' = "download"
    /\ UNCHANGED <<cfgVars, storeVars, loop_i, call, all_saved, report, status, tmpdirs>>

\* the report written after every record as well
WriteReport_AfterEachRecord ==
    /\ pc = "loop"
    /\ report' = <<all_saved>>
    /\ IF loop_i > Len(LoopRecords(records))
       THEN pc' = "done" /\ status' = "ok" /\ h' = Forget(h)
       ELSE UNCHANGED <<pc, status, h>>
    /\ UNCHANGED <<cfgVars, storeVars, loop_i, frame, call, all_saved, tmpdirs>>

\* report_path.write_text(json.dumps(all_saved, ...)) after the loop
WriteReport ==
    /\ pc = "loop"
    /\ loop_i > Len(LoopRecords(records))
    /\ report' = <<all_saved>>
    /\ pc' = "done"
    /\ status' = "ok"
    /\ h' = Forget(h)
    /\ UNCHANGED <<cfgVars, storeVars, loop_i, frame, call, all_saved, tmpdirs>>

\* final_ext taken from the URL alone
FinalExt_UrlOnly(url, ext) ==
    LET ext_from_url == PathSuffix(UrlPath(url))
    IN  IF ext_from_url # <<>> THEN Lower(ext_from_url) ELSE Bin

\* final_ext of the plain-file path
FinalExt(url, ext) ==
    LET ext_from_url == PathSuffix(UrlPath(url))
        final_ext == IF ext_from_url # <<>> THEN ext_from_url ELSE ext
    IN  IF final_ext # <<>> THEN Lower(final_ext) ELSE Bin

\* is_zip
IsZip(url, ext, zipfile) == ext = Zip \/ EndsWith(Lower(url), Zip) \/ zipfile

\* shutil.which('ffmpeg'): whether it finds the tool; the answer is read only
\* at a main member with the extension .mp4
WhichOutcomes(members) ==
    LET mains == Mains(members, Len(members))
    IN  IF \E k \in 1..Len(mains) : Lower(PathSuffix(members[mains[k].val].name)) = Mp4
        THEN BOOLEAN ELSE {FALSE}

\* a failed request ending the script
DownloadError_Exits ==
    /\ pc' = "exit" /\ status' = "exit1"
    /\ UNCHANGED <<frame, call, h, all_saved, loop_i, tmpdirs>>

\* except urllib.error.HTTPError / except Exception around urlopen: return None
DownloadError ==
    /\ ReturnToLoop(NoneRet)
    /\ UNCHANGED <<call, h, status, tmpdirs>>

\* urlopen(req, timeout=60), the zip test, the member classification, and the
\* plain-file path up to the call of save_or_upload_bytes
Download ==
    /\ pc = "download"
    /\ \E pillow \in BOOLEAN, ffmpeg \in WhichOutcomes(web[frame.url].members) :
          LET resp == web[frame.url]
              ext == get_extension_from_content_type(resp.ct)
              mains == Mains(resp.members, Len(resp.members))
          IN  IF ~resp.ok
              THEN DownloadError
              ELSE IF IsZip(frame.url, ext, resp.zipfile)
              THEN IF ~resp.zipfile
                   THEN \* zipfile.ZipFile raised: return None
                        /\ ReturnToLoop(NoneRet)
                        /\ UNCHANGED <<call, h, status, tmpdirs>>
                   ELSE IF mains = <<>>
                   THEN \* 'No -main JPG/MP4 files found in zip'
                        /\ ReturnToLoop(ListRet(<<>>))
                        /\ UNCHANGED <<call, h, status, tmpdirs>>
                   ELSE IF ~pillow
                   THEN \* from PIL import Image raised ModuleNotFoundError
                        /\ pc' = "exit" /\ status' = "exit1"
                        /\ h' = [h EXCEPT !.fatalSeen = TRUE]
                        /\ UNCHANGED <<frame, call, all_saved, loop_i, tmpdirs>>
                   ELSE /\ frame' = [frame EXCEPT !.members = resp.members,
                                                  !.mains = mains, !.gi = 1,
                                                  !.count = 0, !.ffmpeg = ffmpeg]
                        /\ pc' = "group"
                        /\ UNCHANGED <<call, h, all_saved, loop_i, status, tmpdirs>>
              ELSE LET final_ext == FinalExt(frame.url, ext)
                   IN  /\ EnterCommit(resp.data, frame.prefix \o final_ext, final_ext, "plain")
                       /\ UNCHANGED <<frame, all_saved, loop_i, status, tmpdirs>>
    /\ UNCHANGED <<cfgVars, storeVars, report>>

\* out_filename without the counter
OutFilename_NoCounter(prefix, count, ext_inner) == prefix \o ext_inner

\* out_filename of a group
OutFilename(prefix, count, ext_inner) ==
    prefix \o (IF count > 0 THEN <<"_">> \o CountStr(count) ELSE <<>>) \o ext_inner

\* the bytes of the members with the given indices
BytesOf(members, idx) == [j \in 1..Len(idx) |-> members[idx[j]].bts]

\* one turn of: for base, main_member in mains.items()
Group ==
    /\ pc = "group"
    /\ IF frame.gi > Len(frame.mains)
       THEN \* return saved_files
            /\ ReturnToLoop(ListRet(frame.saved_files))
            /\ h' = Forget(h)
            /\ UNCHANGED <<call, status, tmpdirs>>
       ELSE LET base == frame.mains[frame.gi].key
                main == frame.members[frame.mains[frame.gi].val]
                ext_inner == Lower(PathSuffix(main.name))
                out_filename == OutFilename(frame.prefix, frame.count, ext_inner)
                ovs == OverlaysOf(frame.members, base, Len(frame.members))
            IN  IF ~main.readable
                THEN \* 'Failed reading main member': continue
                     /\ frame' = [frame EXCEPT !.gi = @ + 1]
                     /\ pc' = "group"
                     /\ UNCHANGED <<call, h, all_saved, loop_i, status, tmpdirs>>
                ELSE IF ext_inner \in {Jpg, <<".", "j", "p", "e", "g">>}
                THEN IF \/ ~Decodable(main.bts)
                        \/ \E j \in 1..Len(ovs) :
                              \/ ~frame.members[ovs[j]].readable
                              \/ ~Decodable(frame.members[ovs[j]].bts)
                     THEN \* reading, decoding or compositing raised: sys.exit(1)
                          /\ pc' = "exit" /\ status' = "exit1"
                          /\ h' = [h EXCEPT !.fatalSeen = TRUE]
                          /\ UNCHANGED <<frame, call, all_saved, loop_i, tmpdirs>>
                     ELSE /\ EnterCommit(JpegEncode(Composite(main.bts, BytesOf(frame.members, ovs))),
                                         out_filename, ext_inner, "image")
                          /\ UNCHANGED <<frame, all_saved, loop_i, status, tmpdirs>>
                ELSE IF ext_inner = Mp4
                THEN IF ~frame.ffmpeg
                     THEN \* 'ffmpeg is required ... Exiting.'
                          /\ pc' = "exit" /\ status' = "exit1"
                          /\ h' = [h EXCEPT !.fatalSeen = TRUE]
                          /\ UNCHANGED <<frame, call, all_saved, loop_i, tmpdirs>>
                     ELSE \* tmpdir = tempfile.mkdtemp(prefix='snapchat_')
                          /\ tmpdirs' = [tmpdirs EXCEPT !.live = @ + 1]
                          /\ frame' = [frame EXCEPT !.tmp = TRUE, !.cur = main.bts,
                                                    !.ovs = ovs, !.k = 1, !.step = 0]
                          /\ pc' = "chain"
                          /\ UNCHANGED <<call, h, all_saved, loop_i, status>>
                ELSE \* 'Unsupported main file type in zip': continue
                     /\ frame' = [frame EXCEPT !.gi = @ + 1]
                     /\ pc' = "group"
                     /\ UNCHANGED <<call, h, all_saved, loop_i, status, tmpdirs>>
    /\ UNCHANGED <<cfgVars, storeVars, report>>

\* a step whose output is not taken as the next input
ChainStep_KeepsInput(cur, ov) == cur

\* current_input after a step that succeeded: the file ffmpeg wrote
ChainStep(cur, ov) == Ffmpeg(cur, ov)

\* one turn of: for om in overlay_members (video main), and what follows it
Chain ==
    /\ pc = "chain"
    /\ IF frame.k > Len(frame.ovs)
       THEN \* final_bytes = Path(current_input).read_bytes()
            LET main == frame.members[frame.mains[frame.gi].val]
                ext_inner == Lower(PathSuffix(main.name))
            IN  /\ EnterCommit(frame.cur, OutFilename(frame.prefix, frame.count, ext_inner),
                               ext_inner, "video")
                /\ UNCHANGED <<frame, all_saved, loop_i, status, tmpdirs, report>>
       ELSE LET om == frame.members[frame.ovs[frame.k]]
            IN  IF ~om.readable
                THEN \* z.open(om) raised: 'Failed processing overlay', sys.exit(1)
                     /\ \E rmOk \in RmOutcomes : Terminate("exit1", rmOk)
                     /\ h' = [h EXCEPT !.fatalSeen = TRUE]
                ELSE IF ~Decodable(om.bts)
                THEN \* 'Failed to decode overlay ..., skipping it': continue
                     /\ frame' = [frame EXCEPT !.k = @ + 1]
                     /\ pc' = "chain"
                     /\ UNCHANGED <<call, h, all_saved, loop_i, status, tmpdirs, report>>
                ELSE \E toolOk \in BOOLEAN :
                        IF toolOk
                        THEN /\ frame' = [frame EXCEPT !.cur = ChainStep(@, om.bts),
                                                       !.step = @ + 1, !.k = @ + 1]
                             /\ pc' = "chain"
                             /\ UNCHANGED <<call, h, all_saved, loop_i, status,
                                            tmpdirs, report>>
                        ELSE \* proc.returncode != 0: sys.exit(1)
                             /\ \E rmOk \in RmOutcomes : Terminate("exit1", rmOk)
                             /\ h' = [h EXCEPT !.fatalSeen = TRUE]
    /\ UNCHANGED <<cfgVars, storeVars>>

(***************************************************************************)
(* save_or_upload_bytes                                                    *)
(***************************************************************************)
\* check_local_space lets required bytes through
check_local_space(q, required) == q.ok /\ ~(q.free < required)

\* check_gdrive_space with an account that reports no limit taken as unlimited
check_gdrive_space_NoLimitIsUnlimited(q, required) ==
    /\ q.ok
    /\ q.limit # Unparsable
    /\ q.usage # Unparsable
    /\ \/ q.limit = Missing
       \/ ~(q.limit - (IF q.usage = Missing THEN 0 ELSE q.usage) < required)

\* check_gdrive_space lets required bytes through
check_gdrive_space(q, required) ==
    /\ q.ok
    /\ q.limit # Missing
    /\ q.limit # Unparsable
    /\ q.usage # Unparsable
    /\ LET usage == IF q.usage = Missing THEN 0 ELSE q.usage
           remaining == q.limit - usage
       IN  ~(remaining < required)

\* what save_or_upload_bytes hands back to its caller, and what the caller
\* then does with it
ReturnInfo(info, rmOk) ==
    /\ status' = status
    /\ report' = report
    /\ call' = NoCall
    /\ CASE call.caller = "plain" ->
              \* saved_files.append(out_name); return saved_files
              /\ ReturnToLoop(ListRet(Append(frame.saved_files, NameEntry(call.filename))))
              /\ tmpdirs' = tmpdirs
         [] call.caller = "image" ->
              \* saved_files.append(info); count += 1
              /\ frame' = [frame EXCEPT !.saved_files = Append(@, info),
                                        !.count = @ + 1, !.gi = @ + 1]
              /\ pc' = "group"
              /\ UNCHANGED <<all_saved, loop_i, tmpdirs>>
         [] OTHER ->
              \* the same in the video branch, then the finally clause
              /\ frame' = [frame EXCEPT !.saved_files = Append(@, info),
                                        !.count = @ + 1, !.gi = @ + 1, !.tmp = FALSE]
              /\ pc' = "group"
              /\ tmpdirs' = AfterCleanup(rmOk)
              /\ UNCHANGED <<all_saved, loop_i>>

Returned(hh, info) == [hh EXCEPT !.returned = TRUE, !.info = info]

\* required = len(bts), then the capacity check of the destination
\* the guard asked for no bytes at all
Required_Zero(bts) == 0

\* required = len(bts)
Required(bts) == Len(bts)

Guard ==
    /\ pc = "guard"
    /\ IF DESTINATION = "gdrive"
       THEN IF ~(GDRIVE_SERVICE /\ GDRIVE_FOLDER_ID)
            THEN \* 'Drive client or folder ID not configured. Exiting.'
                 /\ \E rmOk \in RmOutcomes : Terminate("exit1", rmOk)
                 /\ UNCHANGED h
            ELSE \E q \in Quotas :
                    LET ok == check_gdrive_space(q, Required(call.bts))
                        hh == [h EXCEPT !.guardPassed = ok,
                                        !.guardObs = [dest |-> "gdrive", q |-> q,
                                                      required |-> Required(call.bts)]]
                    IN  IF ok
                        THEN /\ Goto("conflict")
                             /\ h' = [hh EXCEPT !.itemLog = Append(@, "guard")]
                        ELSE /\ \E rmOk \in RmOutcomes : Terminate("exit1", rmOk)
                             /\ h' = [hh EXCEPT !.fatalSeen = TRUE]
       ELSE \E q \in LocalSpaces :
               LET ok == check_local_space(q, Required(call.bts))
                   hh == [h EXCEPT !.guardPassed = ok,
                                   !.guardObs = [dest |-> "local", q |-> q,
                                                 required |-> Required(call.bts)]]
               IN  IF ok
                   THEN /\ Goto("write")
                        /\ h' = [hh EXCEPT !.itemLog = Append(@, "guard")]
                   ELSE /\ \E rmOk \in RmOutcomes : Terminate("exit1", rmOk)
                        /\ h' = [hh EXCEPT !.fatalSeen = TRUE]
    /\ UNCHANGED <<cfgVars, storeVars>>

\* existing_ids = GDRIVE_EXISTING.get(filename, []) if GDRIVE_EXISTING else []
ExistingIds(index, filename) == IF index # EmptyMap THEN Get(index, filename) ELSE <<>>

\* the conflict handling with mode 'new' treated as 'skip'
ConflictBranch_NewSkips(mode, existing_ids) ==
    IF existing_ids = <<>> THEN "upload"
    ELSE IF mode \in {"skip", "new"} THEN "skip"
    ELSE IF mode = "overwrite" THEN "delete"
    ELSE "upload"

\* if existing_ids: if CONFLICT_MODE == 'skip' ... elif CONFLICT_MODE ==
\* 'overwrite' ...: which branch a commit takes
ConflictBranch(mode, existing_ids) ==
    IF existing_ids = <<>> THEN "upload"
    ELSE IF mode = "skip" THEN "skip"
    ELSE IF mode = "overwrite" THEN "delete"
    ELSE "upload"

\* the conflict handling of the gdrive branch
Conflict ==
    /\ pc = "conflict"
    /\ LET existing_ids == ExistingIds(GDRIVE_EXISTING, call.filename)
           branch == ConflictBranch(CONFLICT_MODE, existing_ids)
       IN  IF branch = "skip"
           THEN \* return {'skipped': True, ...}
                LET info == SkippedInfo(call.filename, existing_ids)
                IN  /\ \E rmOk \in RmOutcomes : ReturnInfo(info, rmOk)
                    /\ h' = Returned(Settled(h), info)
                    /\ UNCHANGED storeVars
           ELSE IF branch = "delete"
           THEN \* delete every id; the first failure is fatal
                \E done \in 0..Len(existing_ids) :
                   LET gone == { existing_ids[j] : j \in 1..done }
                   IN  /\ drive' = { o \in drive : o.id \notin gone }
                       /\ UNCHANGED <<nextId, disk>>
                       /\ IF done < Len(existing_ids)
                          THEN /\ \E rmOk \in RmOutcomes : Terminate("exit1", rmOk)
                               /\ h' = [Settled(h) EXCEPT !.fatalSeen = TRUE,
                                          !.itemLog = @ \o [j \in 1..done |-> "delete"]]
                               /\ UNCHANGED GDRIVE_EXISTING
                          ELSE \* GDRIVE_EXISTING.pop(filename, None)
                               /\ GDRIVE_EXISTING' = Drop(GDRIVE_EXISTING, call.filename)
                               /\ h' = [Settled(h) EXCEPT
                                          !.itemLog = @ \o [j \in 1..done |-> "delete"]]
                               /\ Goto("upload")
           ELSE /\ Goto("upload")
                /\ h' = Settled(h)
                /\ UNCHANGED storeVars
    /\ UNCHANGED cfgVars

\* the upload without the bookkeeping that follows it
IndexAfterUpload_NotRecorded(index, filename, id) == index

\* GDRIVE_EXISTING.setdefault(filename, []).append(created.get('id'))
IndexAfterUpload(index, filename, id) == Put(index, filename, Append(Get(index, filename), id))

\* upload_bytes_to_gdrive, and the bookkeeping after it
Upload ==
    /\ pc = "upload"
    /\ \E ok \in BOOLEAN :
          IF ok
          THEN LET info == GdriveInfo(call.filename, nextId)
               IN  /\ drive' = drive \cup {[id |-> nextId, name |-> call.filename,
                                            bts |-> call.bts]}
                   /\ nextId' = nextId + 1
                   /\ GDRIVE_EXISTING' = IndexAfterUpload(GDRIVE_EXISTING, call.filename, nextId)
                   /\ disk' = disk
                   /\ h' = Returned([h EXCEPT !.itemLog = Append(@, "write"),
                                              !.written = Append(@, call.filename)], info)
                   /\ \E rmOk \in RmOutcomes : ReturnInfo(info, rmOk)
          ELSE \* quota or permission error, or any other: sys.exit(1)
               /\ \E rmOk \in RmOutcomes : Terminate("exit1", rmOk)
               /\ h' = [h EXCEPT !.fatalSeen = TRUE,
                                 !.written = Append(@, call.filename)]
               /\ UNCHANGED storeVars
    /\ UNCHANGED cfgVars

\* where the local branch goes after save_bytes_to_file
AfterLocalWrite == "embed"

\* save_bytes_to_file(bts, out_path) of the local branch
Write ==
    /\ pc = "write"
    /\ \E ok \in BOOLEAN :
          IF ok
          THEN /\ disk' = Put(disk, call.filename, call.bts)
               /\ h' = [Settled(h) EXCEPT !.itemLog = Append(@, "write"),
                                          !.written = Append(@, call.filename)]
               /\ Goto(AfterLocalWrite)
          ELSE \* mkdir, open or write raised
               /\ disk' = disk
               /\ h' = [Settled(h) EXCEPT !.fatalSeen = TRUE,
                                          !.written = Append(@, call.filename)]
               /\ CASE call.caller = "plain" ->
                         \* except Exception: 'Failed saving download'; return saved_files
                         /\ ReturnToLoop(ListRet(frame.saved_files))
                         /\ call' = NoCall
                         /\ UNCHANGED <<status, tmpdirs, report>>
                    [] call.caller = "image" ->
                         \* except Exception: 'Failed compositing overlays'; sys.exit(1)
                         Terminate("exit1", TRUE)
                    [] OTHER ->
                         \* nothing catches it: the finally clause, then a traceback
                         \E rmOk \in RmOutcomes : Terminate("crash", rmOk)
    /\ UNCHANGED <<cfgVars, drive, nextId, GDRIVE_EXISTING>>

\* the local branch returning without calling write_file_metadata
Embed_NotAttempted ==
    /\ pc = "embed"
    /\ LET info == PathInfo(call.filename)
       IN  /\ h' = Returned(h, info)
           /\ \E rmOk \in RmOutcomes : ReturnInfo(info, rmOk)
    /\ UNCHANGED <<cfgVars, storeVars>>

\* a failure of write_file_metadata ending the script
Embed_FailureExits ==
    /\ pc = "embed"
    /\ \E ok \in BOOLEAN :
          LET info == PathInfo(call.filename)
          IN  IF ok
              THEN /\ h' = Returned([h EXCEPT !.itemLog = Append(@, "embed")], info)
                   /\ \E rmOk \in RmOutcomes : ReturnInfo(info, rmOk)
              ELSE /\ h' = [h EXCEPT !.itemLog = Append(@, "embed"), !.embedOk = FALSE]
                   /\ \E rmOk \in RmOutcomes : Terminate("exit1", rmOk)
    /\ UNCHANGED <<cfgVars, storeVars>>

\* write_file_metadata(out_path, meta) inside try/except, then return
\* {'path': ...}; ok is what write_file_metadata answered.  disk keeps the
\* payload of a file, not the tags written into it.
Embed ==
    /\ pc = "embed"
    /\ \E ok \in BOOLEAN :
          LET info == PathInfo(call.filename)
          IN  /\ h' = Returned([h EXCEPT !.itemLog = Append(@, "embed"),
                                          !.embedOk = ok], info)
              /\ \E rmOk \in RmOutcomes : ReturnInfo(info, rmOk)
    /\ UNCHANGED <<cfgVars, storeVars>>

Next ==
    \/ PromptLocal
    \/ PromptGdrive
    \/ PreFilter
    \/ LoopSkip
    \/ LoopStart
    \/ WriteReport
    \/ Download
    \/ Group
    \/ Chain
    \/ Guard
    \/ Conflict
    \/ Upload
    \/ Write
    \/ Embed

Spec == Init /\ [][Next]_vars

(***************************************************************************)
(* A second run of the script over the destination the first run left,     *)
(* with the same answers, the same table and the same downloads.           *)
(***************************************************************************)
Rerun ==
    /\ pc = "done"
    /\ ~h.rerun
    /\ DESTINATION' = "local"
    /\ GDRIVE_SERVICE' = FALSE
    /\ GDRIVE_FOLDER_ID' = FALSE
    /\ CONFLICT_MODE' = "skip"
    /\ GDRIVE_EXISTING' = EmptyMap
    /\ records' = RecordsOf(user.tail)
    /\ pc' = "prompt"
    /\ loop_i' = 1
    /\ frame' = NoFrame
    /\ call' = NoCall
    /\ all_saved' = EmptyMap
    /\ status' = "running"
    /\ h' = [StartHistory(IF user.choice = "gdrive" THEN DriveNames(drive)
                          ELSE DOMAIN disk) EXCEPT !.rerun = TRUE]
    /\ UNCHANGED <<user, web, report, drive, nextId, disk, tmpdirs>>

\* the runs whose conflict mode is skip
InitSkip == Init /\ user.cm = "skip"

NextRerun == Next \/ Rerun

SpecRerun == InitSkip /\ [][NextRerun]_vars

(***************************************************************************)
(* The prefixes of the records of one table: two rows after the slice,     *)
(* with Date and Location texts as clean() leaves them (stripped), every   *)
(* request failing, the local directory as destination.                    *)
(***************************************************************************)
\* html.unescape(s).strip(): no white space at either end
Stripped(t) == t = Strip(t)

DateTexts ==
    { t \in UNION { [1..k -> {"a", " ", "_"}] : k \in 0..MaxText } : Stripped(t) }

LocationTexts == { <<>>, <<"_">>, <<"a">> }

TextRecs == { Rec(d, "Video", l, <<"u", "1">>) : d \in DateTexts, l \in LocationTexts }

InitPrefix ==
    /\ \E tail \in [1..2 -> TextRecs] :
          /\ user = [choice |-> "local", cm |-> "skip", tail |-> tail]
          /\ records = RecordsOf(tail)
    /\ web = [u \in {<<"u", "1">>} |-> Resp(FALSE, "", FALSE, <<>>, <<>>)]
    /\ drive = {}
    /\ disk = EmptyDir
    /\ nextId = 1
    /\ h = StartHistory({})
    /\ DESTINATION = "local"
    /\ GDRIVE_SERVICE = FALSE
    /\ GDRIVE_FOLDER_ID = FALSE
    /\ CONFLICT_MODE = "skip"
    /\ GDRIVE_EXISTING = EmptyMap
    /\ pc = "prompt"
    /\ loop_i = 1
    /\ frame = NoFrame
    /\ call = NoCall
    /\ all_saved = EmptyMap
    /\ report = <<>>
    /\ status = "running"
    /\ tmpdirs = [live |-> 0, left |-> 0]

NextPrefix == PromptLocal \/ PreFilter \/ LoopStart \/ Download \/ WriteReport

SpecPrefix == InitPrefix /\ [][NextPrefix]_vars

(***************************************************************************)
(* The classification of archive members: one row after the slice, whose   *)
(* URL answers an archive with one member, the name of which is made of    *)
(* base texts and markers; the local directory as destination.             *)
(***************************************************************************)
NameParts == { <<"a">>, MainTag, <<"-", "M", "A", "I", "N">>, OverlayTag }

RECURSIVE Concat(_)
Concat(parts) == IF parts = <<>> THEN <<>> ELSE Head(parts) \o Concat(Tail(parts))

Stems == { Concat(ps) : ps \in UNION { [1..k -> NameParts] : k \in 1..MaxParts } }

MemberExts == { <<>>, Jpg, <<".", "J", "P", "G">>, Mp4, Png, <<".", "t">> }

MemberNames == { st \o e : st \in Stems, e \in MemberExts }

InitClassify ==
    /\ user = [choice |-> "local", cm |-> "skip",
               tail |-> << Rec(<<"a">>, "Video", <<>>, <<"u", "1">>) >>]
    /\ records = RecordsOf(user.tail)
    /\ \E nm \in MemberNames :
          web = [u \in {<<"u", "1">>} |->
                    Resp(TRUE, "", TRUE, <<4>>, << Member(nm, <<1>>, TRUE) >>)]
    /\ drive = {}
    /\ disk = EmptyDir
    /\ nextId = 1
    /\ h = StartHistory({})
    /\ DESTINATION = "local"
    /\ GDRIVE_SERVICE = FALSE
    /\ GDRIVE_FOLDER_ID = FALSE
    /\ CONFLICT_MODE = "skip"
    /\ GDRIVE_EXISTING = EmptyMap
    /\ pc = "prompt"
    /\ loop_i = 1
    /\ frame = NoFrame
    /\ call = NoCall
    /\ all_saved = EmptyMap
    /\ report = <<>>
    /\ status = "running"
    /\ tmpdirs = [live |-> 0, left |-> 0]

NextClassify == PromptLocal \/ PreFilter \/ LoopStart \/ Download \/ Group \/ WriteReport

SpecClassify == InitClassify /\ [][NextClassify]_vars

(***************************************************************************)
(* Properties.                                                             *)
(***************************************************************************)
Log == h.itemLog

HasUrl(rec) == rec.Url # None

\* C1: in conflict mode skip, a commit of a name that is already at the
\* destination (local directory or Drive folder) never invokes the write or the
\* upload, and what it returns is a skip
C1_SkipNeverWrites ==
    (CONFLICT_MODE = "skip" /\ h.existed) =>
        /\ "write" \notin Range(Log)
        /\ h.returned => h.info.kind = "skipped"

\* C2: in conflict mode overwrite, after a successful commit of a name exactly
\* one object or file is at the destination under that name, and it holds the
\* bytes just committed, however many were there under that name before
C2_OverwriteLeavesOne ==
    (CONFLICT_MODE = "overwrite" /\ h.returned /\ h.info.kind # "skipped") =>
        IF DESTINATION = "gdrive"
        THEN \E o \in drive : /\ { x \in drive : x.name = h.name } = {o}
                              /\ o.bts = h.bts
        ELSE h.name \in DOMAIN disk /\ disk[h.name] = h.bts

\* C3: in conflict mode new, once the pre-filter has run, the record set is the
\* table without the records whose prefix is a string prefix of a name that was
\* at the destination, so that none of those is downloaded, committed or reported
C3_NewDropsExisting ==
    (CONFLICT_MODE = "new" /\ pc \notin {"prompt", "prefilter", "exit"}) =>
        /\ records = NewRecords(RecordsOf(user.tail), h.names0)
        /\ \A k \in 1..Len(h.processed) : ~ExistsAt(h.names0, h.processed[k])
        /\ \A k \in 1..Len(user.tail) :
              (HasUrl(user.tail[k]) /\ ExistsAt(h.names0, user.tail[k]))
                  => user.tail[k].Url \notin DOMAIN all_saved

\* C4: a second run over the same records and the destination the first run
\* left, in conflict mode skip, hands nothing to a write or an upload
C4_SecondRunWritesNothing == h.rerun => h.written = <<>>

\* C5: once a run-fatal condition has occurred the run has terminated with a
\* failure, so that nothing more is downloaded, written, uploaded or deleted
C5_FatalStopsRun == h.fatalSeen => (pc = "exit" /\ status \in {"exit1", "crash"})

\* C6: the capacity guard lets the payload through exactly when the capacity is
\* known and at least the payload's length (local: free space; Drive: limit
\* minus usage, a missing limit being fatal), and otherwise the run terminates
C6_GuardIffKnownAndSufficient ==
    h.guardObs.dest # "none" =>
        LET q == h.guardObs.q
            required == h.guardObs.required
            known == IF h.guardObs.dest = "local" THEN q.ok
                     ELSE /\ q.ok
                          /\ q.limit \notin {Missing, Unparsable}
                          /\ q.usage # Unparsable
            avail == IF h.guardObs.dest = "local" THEN q.free
                     ELSE q.limit - (IF q.usage = Missing THEN 0 ELSE q.usage)
        IN  /\ h.guardPassed <=> (known /\ avail >= required)
            /\ h.guardPassed => pc # "exit"
            /\ ~h.guardPassed => (pc = "exit" /\ status = "exit1")

C6_Witness ==
    /\ h.guardObs.dest = "gdrive"
    /\ h.guardPassed
    /\ h.guardObs.q.usage = 1
    /\ h.guardObs.q.limit - 1 = h.guardObs.required
    /\ pc = "conflict"

\* no write and no delete of a commit comes before its guard has passed
GuardFirst ==
    \A i \in 1..Len(Log) :
        Log[i] \in {"write", "delete"} => \E j \in 1..(i - 1) : Log[j] = "guard"

\* C7 as stated: guard, then write, then an embed attempt on the written file,
\* for every committed item on either destination
C7_GuardWriteEmbed ==
    /\ GuardFirst
    /\ (h.returned /\ "write" \in Range(Log)) =>
          \E i, j \in 1..Len(Log) : i < j /\ Log[i] = "write" /\ Log[j] = "embed"

\* C7 as amended: the guard comes first on either destination; a write to the
\* local directory is followed by an embed attempt on the written file, while
\* an upload to Drive carries the metadata as properties of the object and no
\* embed attempt follows it
C7_GuardWriteThenLocalEmbed ==
    /\ GuardFirst
    /\ (h.returned /\ "write" \in Range(Log)) =>
          IF DESTINATION = "local"
          THEN Log = <<"guard", "write", "embed">>
          ELSE /\ Log[1] = "guard"
               /\ Log[Len(Log)] = "write"
               /\ "embed" \notin Range(Log)

C7_Witness ==
    /\ DESTINATION = "local"
    /\ h.returned
    /\ h.info.kind = "path"
    /\ Log = <<"guard", "write", "embed">>
    /\ frame.count = 2

\* C8: with Drive as the destination, from the end of the configuration to the
\* first commit, the index maps every name of the folder to all the ids under it
C8_IndexIsFolderListing ==
    (DESTINATION = "gdrive" /\ h.listed /\ h.written = <<>> /\ "delete" \notin Range(Log))
        => GDRIVE_EXISTING = build_gdrive_existing_map(drive)

NoDuplicates(sq) == \A i, j \in 1..Len(sq) : sq[i] = sq[j] => i = j

\* C9: after a successful upload of a name the index holds the new id under
\* that name, and in conflict mode skip no name is uploaded twice in one run
C9_UploadIndexedOnce ==
    /\ (h.returned /\ h.info.kind = "gdrive_id") =>
          h.info.ids[1] \in Range(Get(GDRIVE_EXISTING, h.name))
    /\ (DESTINATION = "gdrive" /\ CONFLICT_MODE = "skip") => NoDuplicates(h.written)

C9_Witness ==
    /\ DESTINATION = "gdrive"
    /\ CONFLICT_MODE = "skip"
    /\ h.returned
    /\ h.info.kind = "skipped"
    /\ h.name \in Range(h.written)
    /\ h.names0 = {}

\* C10: in a run that ends without a fatal condition, the records given to
\* download_and_process are, in input order and once each, the records that
\* have a download URL, and the report has an entry for the URL of each
C10_EveryRecordProcessed ==
    pc = "done" =>
        /\ h.processed = SelectSeq(records, HasUrl)
        /\ \A k \in 1..Len(records) :
              HasUrl(records[k]) => records[k].Url \in DOMAIN report[1]

\* C11: when the request of a record's payload fails, nothing is written,
\* uploaded or deleted and the index is untouched, the record's result is None,
\* and the script goes on to the next record
C11_DownloadFailureSkipsRecord ==
    [][ (pc = "download" /\ ~web[frame.url].ok) =>
           /\ UNCHANGED <<drive, nextId, disk, GDRIVE_EXISTING>>
           /\ h'.written = h.written
           /\ all_saved' = Put(all_saved, frame.url, NoneRet)
           /\ pc' = "loop"
           /\ loop_i' = loop_i + 1
           /\ status' = "running" ]_vars

C11_Witness ==
    /\ pc = "download"
    /\ Len(h.processed) = 2
    /\ \E u \in DOMAIN all_saved : ~web[u].ok /\ all_saved[u] = NoneRet

\* C12: what download_and_process hands back holds an outcome for the commit
\* that has just returned, and that outcome is a skip exactly when the commit
\* was skipped by the conflict policy
C12_SkipShowsInOutcomes ==
    h.returned =>
        LET out == IF pc = "loop"
                   THEN all_saved[h.processed[Len(h.processed)].Url].files
                   ELSE frame.saved_files
        IN  /\ out # <<>>
            /\ (out[Len(out)].kind = "skipped") <=> (h.info.kind = "skipped")

\* the main member of the group download_and_process is at
CurrentMain == frame.members[frame.mains[frame.gi].val]

\* {prefix}{ext} for n = 0 and {prefix}_{n}{ext} for n >= 1
NumberedName(prefix, n, ext) ==
    prefix \o (IF n = 0 THEN <<>> ELSE <<"_">> \o CountStr(n)) \o ext

\* C13 as stated: the i-th group with a main member (i from 0, in archive
\* order) is committed under {prefix}{ext} for i = 0 and {prefix}_{i}{ext}
\* otherwise, and the names of one record differ from one another
C13_GroupIndexNames ==
    call.caller \in {"image", "video"} =>
        /\ call.filename = NumberedName(frame.prefix, frame.gi - 1,
                                        Lower(PathSuffix(CurrentMain.name)))
        /\ \A j \in 1..Len(frame.saved_files) :
              frame.saved_files[j].name # call.filename

\* C13 as amended: the number in the name is the number of groups of the
\* record committed before it (a group whose main member cannot be read is
\* passed over and takes no number), and the names of one record differ from
\* one another
C13_GroupCommitCountNames ==
    call.caller \in {"image", "video"} =>
        /\ call.filename = NumberedName(frame.prefix, Len(frame.saved_files),
                                        Lower(PathSuffix(CurrentMain.name)))
        /\ \A j \in 1..Len(frame.saved_files) :
              frame.saved_files[j].name # call.filename

\* abc-main.jpg, abc-overlay.png, xyz-main.jpg: {prefix}.jpg and {prefix}_1.jpg
C13_Witness ==
    /\ pc = "group"
    /\ Len(frame.members) = 3
    /\ Classify(frame.members[2].name).role = "overlay"
    /\ Len(frame.saved_files) = 2
    /\ frame.saved_files[1].name = frame.prefix \o Jpg
    /\ frame.saved_files[2].name = frame.prefix \o <<"_", "1">> \o Jpg

\* the script has stopped at a video group because shutil.which('ffmpeg') found
\* nothing
ToolMissingExit ==
    /\ pc = "exit"
    /\ frame.gi \in 1..Len(frame.mains)
    /\ CurrentMain.readable
    /\ Lower(PathSuffix(CurrentMain.name)) = Mp4
    /\ ~frame.ffmpeg

\* C14: without the compositing tool the run stops at a video group exactly
\* when that group has at least one overlay, and it stops before the group is
\* committed
C14_ToolMissingFatalOnlyWithOverlay ==
    /\ ToolMissingExit =>
          /\ OverlaysOf(frame.members, frame.mains[frame.gi].key, Len(frame.members)) # <<>>
          /\ status = "exit1"
          /\ call = NoCall
    /\ call.caller = "video" => frame.ffmpeg

\* the URL path's suffix, else the Content-Type's extension, else .bin
ExtByFallback(sfx, ct) ==
    LET cte == get_extension_from_content_type(ct)
    IN  IF sfx # <<>> THEN sfx ELSE IF cte # <<>> THEN cte ELSE Bin

\* C15 as stated: a plain payload is committed under {prefix}{ext}, ext being
\* the suffix of the URL's path if it has one, else the extension of the
\* Content-Type, else .bin
C15_PlainNameByFallback ==
    call.caller = "plain" =>
        call.filename = frame.prefix \o
            ExtByFallback(PathSuffix(UrlPath(frame.url)), web[frame.url].ct)

\* C15 as amended: the same, with the suffix of the URL's path in lower case
C15_PlainNameByFallbackLowered ==
    call.caller = "plain" =>
        call.filename = frame.prefix \o
            ExtByFallback(Lower(PathSuffix(UrlPath(frame.url))), web[frame.url].ct)

\* Content-Type image/jpeg and a URL path without extension: {prefix}.jpg
C15_Witness ==
    /\ call.caller = "plain"
    /\ web[frame.url].ct = "image/jpeg"
    /\ PathSuffix(UrlPath(frame.url)) = <<>>
    /\ call.filename = frame.prefix \o Jpg

\* C16: a step in which write_file_metadata fails leaves the script running,
\* leaves the written file at the destination with the bytes written, and
\* returns the outcome of a committed file to the caller
C16_EmbedFailureHarmless ==
    [][ (pc = "embed" /\ ~h'.embedOk) =>
           /\ pc' \in {"loop", "group"}
           /\ status' = "running"
           /\ disk' = disk
           /\ call.filename \in DOMAIN disk'
           /\ disk'[call.filename] = call.bts
           /\ h'.returned
           /\ h'.info = PathInfo(call.filename) ]_vars

C16_Witness ==
    /\ h.returned
    /\ ~h.embedOk
    /\ h.info.kind = "path"
    /\ pc = "group"
    /\ h.name \in DOMAIN disk
    /\ disk[h.name] = h.bts

\* download_and_process is inside the try block of a video group
InVideoGroup == frame.tmp /\ pc # "exit"

C18_PrefixInjective ==
    pc = "download" =>
        \A k \in 1..Len(h.processed) :
            Prefix(h.processed[k]) = frame.prefix =>
                /\ h.processed[k].Date = h.processed[Len(h.processed)].Date
                /\ h.processed[k].Location = h.processed[Len(h.processed)].Location

\* the overlays that decode, laid one after the other over cur
RECURSIVE FoldOverlays(_, _)
FoldOverlays(cur, ovs) ==
    IF ovs = <<>> THEN cur
    ELSE FoldOverlays(IF Decodable(Head(ovs)) THEN Ffmpeg(cur, Head(ovs)) ELSE cur,
                      Tail(ovs))

\* the bytes of the overlays of the current group, in archive order
CurrentOverlays ==
    BytesOf(frame.members,
            OverlaysOf(frame.members, frame.mains[frame.gi].key, Len(frame.members)))

\* C19: the bytes a video group hands to the commit are the main member's bytes
\* with the overlays that decode applied in archive order, each step on the
\* output of the one before; an overlay that does not decode is left out; with
\* no overlay applied they are the main member's bytes
C19_VideoChainIsFold ==
    call.caller = "video" => call.bts = FoldOverlays(CurrentMain.bts, CurrentOverlays)

\* three overlays, the second of which does not decode
C19_Witness ==
    /\ call.caller = "video"
    /\ Len(CurrentOverlays) = 3
    /\ ~Decodable(CurrentOverlays[2])
    /\ call.bts = Ffmpeg(Ffmpeg(CurrentMain.bts, CurrentOverlays[1]), CurrentOverlays[3])
    /\ call.bts # CurrentMain.bts

(***************************************************************************)
(* C20: the classification of archive members.                             *)
(***************************************************************************)
\* the member names of the archives the download step has opened
OpenedUrls ==
    { u \in DOMAIN web : /\ web[u].ok /\ web[u].zipfile
                         /\ \/ u \in DOMAIN all_saved
                            \/ pc \notin {"prompt", "prefilter", "loop", "download"}
                               /\ frame # NoFrame /\ frame.url = u }

ArchiveMemberNames ==
    UNION { { web[u].members[k].name : k \in 1..Len(web[u].members) } : u \in OpenedUrls }

\* the name of a member without its directories and extension, and the
\* extension in lower case
NameNoExt(member) ==
    LET nm == PathName(member)
    IN  SubSeq(nm, 1, Len(nm) - Len(PathSuffix(nm)))

ExtOf(member) == Lower(PathSuffix(PathName(member)))

\* the lengths of the texts that precede an occurrence of the marker in s
\* (letters of either case)
Occurrences(s, tag) ==
    { k \in 0..Len(s) : StartsWith(Lower(SubSeq(s, k + 1, Len(s))), tag) }

\* the same, for the occurrences after a non-empty text
TagPositions(s, tag) == Occurrences(s, tag) \ {0}

First(ks) == CHOOSE k \in ks : \A j \in ks : k <= j

MainExts == { Jpg, <<".", "j", "p", "e", "g">>, Mp4 }

\* an archive of one member, none of which is a main, has been handled
IgnoredArchiveDone ==
    /\ pc = "loop"
    /\ loop_i > 1
    /\ \A u \in DOMAIN all_saved :
          web[u].zipfile /\ \A k \in 1..Len(web[u].members) :
                                Classify(web[u].members[k].name).role # "main"

\* C20 (as stated): a member is Main only if its name without extension
\* carries the main marker after a non-empty base and its extension is
\* .jpg/.jpeg/.mp4, Overlay only if it carries the overlay marker and its
\* extension is .png; the group key is the text preceding that marker; an
\* archive of ignored members produces no output and no error.
C20_KeyPrecedesOwnMarker ==
    /\ \A m \in ArchiveMemberNames :
          LET c == Classify(m)
              s == NameNoExt(m)
          IN  /\ c.role \in {"main", "overlay", "ignored"}
              /\ c.role = "main" =>
                    /\ TagPositions(s, MainTag) # {}
                    /\ ExtOf(m) \in MainExts
                    /\ c.base = SubSeq(s, 1, First(TagPositions(s, MainTag)))
              /\ c.role = "overlay" =>
                    /\ Occurrences(s, OverlayTag) # {}
                    /\ ExtOf(m) = Png
                    /\ c.base = SubSeq(s, 1, First(Occurrences(s, OverlayTag)))
    /\ IgnoredArchiveDone =>
          /\ \A u \in DOMAIN all_saved : all_saved[u] = ListRet(<<>>)
          /\ disk = EmptyDir /\ status = "running"

\* C20 (amended): a member is Main exactly when, in its name without
\* extension, one of the two markers follows a non-empty text, the main
\* marker occurs somewhere in it, and its extension is .jpg/.jpeg/.mp4; it is
\* Overlay exactly when it is not Main, one of the two markers follows a
\* non-empty text, the overlay marker occurs somewhere in it, and its
\* extension is .png; the group key is the text preceding the first marker,
\* main or overlay, that follows a non-empty text; an archive of ignored
\* members produces no output and no error; the group list the download
\* step builds holds the keys of the mains.
C20_KeyPrecedesFirstMarker ==
    /\ \A m \in ArchiveMemberNames :
          LET c == Classify(m)
              s == NameNoExt(m)
              any == TagPositions(s, MainTag) \cup TagPositions(s, OverlayTag)
              isMain == /\ any # {}
                        /\ Contains(Lower(s), MainTag)
                        /\ ExtOf(m) \in MainExts
              isOverlay == /\ ~isMain
                           /\ any # {}
                           /\ Contains(Lower(s), OverlayTag)
                           /\ ExtOf(m) = Png
          IN  /\ c.role = "main" <=> isMain
              /\ c.role = "overlay" <=> isOverlay
              /\ c.role = "ignored" <=> ~isMain /\ ~isOverlay
              /\ c.role # "ignored" => c.base = SubSeq(s, 1, First(any))
    /\ IgnoredArchiveDone =>
          /\ \A u \in DOMAIN all_saved : all_saved[u] = ListRet(<<>>)
          /\ disk = EmptyDir /\ status = "running"
    /\ pc = "group" =>
          \A g \in 1..Len(frame.mains) :
              LET c == Classify(frame.members[frame.mains[g].val].name)
              IN  c.role = "main" /\ c.base = frame.mains[g].key

\* the download step has grouped an archive whose main carries the overlay
\* marker before the main marker
C20_Witness ==
    /\ pc = "group"
    /\ \E g \in 1..Len(frame.mains) :
          LET s == NameNoExt(frame.members[frame.mains[g].val].name)
          IN  /\ TagPositions(s, OverlayTag) # {}
              /\ TagPositions(s, MainTag) # {}
              /\ First(TagPositions(s, OverlayTag)) < First(TagPositions(s, MainTag))
              /\ frame.mains[g].key = SubSeq(s, 1, First(TagPositions(s, OverlayTag)))

(***************************************************************************)
(* C21: a failure of init_gdrive_service.                                  *)
(***************************************************************************)
\* the user chose gdrive, gave a key file, and init_gdrive_service raised:
\* the script went on past prompt_destination without a Drive client
InitFailedRun ==
    /\ user.choice = "gdrive"
    /\ ~GDRIVE_SERVICE
    /\ pc \notin {"prompt", "exit"} \/ (pc = "exit" /\ call # NoCall)

\* C21: when initialising the Drive client fails, the run falls back to the
\* local destination: commits go to the local directory, and no commit ends
\* the run for lack of a Drive client.
C21_InitFailureFallsBackToLocal ==
    InitFailedRun =>
        /\ DESTINATION = "local"
        /\ (pc = "exit" /\ call # NoCall) => h.guardObs # NoObs

(***************************************************************************)
(* C22: conflict mode 'new' at the time of the upload.                     *)
(***************************************************************************)
\* the objects of the folder the index lists under the name
IndexedObjects(name) ==
    LET ids == Get(GDRIVE_EXISTING, name)
    IN  { o \in drive : o.name = name /\ \E j \in 1..Len(ids) : ids[j] = o.id }

QuotaSuffices(q, n) ==
    /\ q.ok
    /\ q.limit \notin {Missing, Unparsable}
    /\ q.usage # Unparsable
    /\ q.limit - (IF q.usage = Missing THEN 0 ELSE q.usage) >= n

\* C23: on the remote destination the capacity guard is the first step of a
\* commit and is asked for the payload's length; when the quota is unknown
\* or smaller than the payload the run terminates there, whatever the
\* conflict mode and whether or not the name exists: no skip is returned and
\* no object is deleted; the conflict handling is reached only by a commit
\* the guard let through.
C23_GuardBeforeConflict ==
    [][ /\ ( /\ pc = "guard"
             /\ DESTINATION = "gdrive"
             /\ GDRIVE_SERVICE /\ GDRIVE_FOLDER_ID )
           => /\ h'.guardObs.dest = "gdrive"
              /\ h'.guardObs.required = Len(call.bts)
              /\ drive' = drive
              /\ GDRIVE_EXISTING' = GDRIVE_EXISTING
              /\ IF QuotaSuffices(h'.guardObs.q, Len(call.bts))
                 THEN pc' = "conflict"
                 ELSE /\ pc' = "exit" /\ status' = "exit1"
                      /\ ~h'.returned
                      /\ all_saved' = all_saved
                      /\ frame'.saved_files = frame.saved_files
        /\ pc' = "conflict" => pc = "guard" /\ h'.guardPassed
        /\ pc' = "upload" => pc = "conflict"
      ]_vars

\* in skip mode a commit of a name the index holds has ended the run at the
\* guard
C23_Witness ==
    /\ pc = "exit" /\ status = "exit1"
    /\ DESTINATION = "gdrive"
    /\ CONFLICT_MODE = "skip"
    /\ ExistingIds(GDRIVE_EXISTING, call.filename) # <<>>
    /\ h.guardObs.dest = "gdrive"
    /\ ~h.guardPassed
    /\ h.existed

(***************************************************************************)
(* C24: the report and the committed files of a run that ends early.       *)
(***************************************************************************)
\* the names this run has committed: the entries of the lists kept for the
\* records done and of the list of the record in hand, the skips left out
CommittedNames ==
    LET Names(files) == { files[j].name : j \in { i \in 1..Len(files) :
                                                    files[i].kind # "skipped" } }
    IN  Names(frame.saved_files) \cup
        UNION { Names(all_saved[u].files) : u \in DOMAIN all_saved }

\* the run has ended before the end of the loop
EndedEarly == pc = "exit"

\* the report is written after the loop over the records, and only then
ReportOnlyAfterLoop ==
    /\ report # <<>> => (pc = "done" /\ loop_i > Len(LoopRecords(records)))
    /\ EndedEarly => report = <<>>

\* C24 (as stated): the report is written only after the last record; a run
\* that terminates on a fatal condition leaves no report, and every file it
\* committed before is still at the destination.
C24_CommittedFilesRemain ==
    /\ ReportOnlyAfterLoop
    /\ EndedEarly => \A name \in CommittedNames : NameExists(name)

\* C24 (amended): the report is written only after the loop over the records
\* has ended; a run that terminates early leaves no report, and every file
\* it committed before is still at the destination, except that on the
\* remote destination in overwrite mode the objects under the name of the
\* commit in which the run ended may already have been deleted.
C24_CommittedFilesRemainButOverwritten ==
    /\ ReportOnlyAfterLoop
    /\ EndedEarly =>
          \A name \in CommittedNames :
              \/ NameExists(name)
              \/ /\ DESTINATION = "gdrive"
                 /\ CONFLICT_MODE = "overwrite"
                 /\ name = call.filename

\* a run has ended on a fatal condition after it had committed a file: the
\* file is at the destination and there is no report
C24_Witness ==
    /\ EndedEarly
    /\ h.fatalSeen
    /\ CommittedNames # {}
    /\ \A name \in CommittedNames : NameExists(name)
    /\ report = <<>>

==========================================================================
